---- MODULE Spec2Model ----
(***************************************************************************)
(* Companies House checker (src/app.py): the name normaliser, the match    *)
(* scorer and the resolver of search_companies_house, the cancellable      *)
(* batch loop of process_companies and the start-button handler that       *)
(* drives it.                                                              *)
(*                                                                         *)
(* A Python str is modelled as a sequence of one-character strings, so     *)
(* that strip, upper, endswith, in, replace and split are computed         *)
(* character by character as Python computes them.                         *)
(***************************************************************************)
EXTENDS Integers, Sequences, FiniteSets, TLC

(* ---------------------------------------------------------------------- *)
(* State                                                                   *)
(* ---------------------------------------------------------------------- *)

VARIABLES
    df,                \* the name column of the uploaded file, in row order
    registry,          \* the items the remote registry can answer with
    stop_processing,   \* st.session_state.stop_processing
    processing,        \* st.session_state.processing
    pc,                \* where the script run is: idle, loop, search, append, returned, end
    i,                 \* process_companies: index of the row the loop is at
    results,           \* process_companies: the list `results`
    results_df,        \* handler: <<frame>> once process_companies returned, else <<>>
    reported,          \* handler: which message it showed, "stopped" or "complete"
    processing_error,  \* handler: whether the except branch showed "Processing error"
    original_name,     \* search_companies_house locals
    variations,        \*   search_variations[:6]
    vi,                \*   position of search_term in variations
    norm,              \*   name_clean and search_variations (before [:6])
    best,              \*   best_score, best_match (<<>> is None), search_term_used
    n_all_items,       \*   len(all_items)
    result,            \* process_companies: the dict search_companies_house returned
    queries,           \* history: the q of every requests.get of this search
    candidates,        \* history: the items this search was answered with, as a set
    last_response,     \* history: how the latest requests.get of this search ended
    stop_at,           \* history: <<[pc, i, q]>> where the stop flag was last raised
    clock,             \* history: time slept (ms) since the latest requests.get of the run
    served             \* history: what a deterministic registry has answered, by query

vars == <<df, registry, stop_processing, processing, pc, i, results, results_df,
          reported, processing_error, original_name, variations, vi, norm, best,
          n_all_items, result, queries, candidates, last_response, stop_at, clock,
          served>>

searchVars == <<original_name, variations, vi, norm, best, n_all_items, queries,
                candidates, last_response>>

(* ---------------------------------------------------------------------- *)
(* Python string primitives                                                *)
(* ---------------------------------------------------------------------- *)

LowerChars == <<"a","b","c","d","e","f","g","h","i","j","k","l","m",
                "n","o","p","q","r","s","t","u","v","w","x","y","z">>

UpperChars == <<"A","B","C","D","E","F","G","H","I","J","K","L","M",
                "N","O","P","Q","R","S","T","U","V","W","X","Y","Z">>

DigitChars == <<"0","1","2","3","4","5","6","7","8","9">>

Range(f) == {f[k] : k \in DOMAIN f}

\* str.upper() on one character
UpperChar(c) ==
    IF c \in Range(LowerChars)
    THEN UpperChars[CHOOSE k \in DOMAIN LowerChars : LowerChars[k] = c]
    ELSE c

\* str.upper()
StrUpper(s) == [k \in 1..Len(s) |-> UpperChar(s[k])]

\* c.isalnum()
IsAlnum(c) == c \in Range(LowerChars) \cup Range(UpperChars) \cup Range(DigitChars)

\* s[:n]
Take(s, n) == SubSeq(s, 1, IF n < Len(s) THEN n ELSE Len(s))

\* s[n:]
Drop(s, n) == SubSeq(s, n + 1, Len(s))

\* s.startswith(p)
StartsWith(s, p) == Len(p) <= Len(s) /\ SubSeq(s, 1, Len(p)) = p

\* s.endswith(p)
EndsWith(s, p) == Len(p) <= Len(s) /\ SubSeq(s, Len(s) - Len(p) + 1, Len(s)) = p

\* p in s
Contains(s, p) == \E k \in 0..(Len(s) - Len(p)) : SubSeq(s, k + 1, k + Len(p)) = p

RECURSIVE LStrip(_)
LStrip(s) == IF s # <<>> /\ Head(s) = " " THEN LStrip(Tail(s)) ELSE s

RECURSIVE RStrip(_)
RStrip(s) == IF s # <<>> /\ s[Len(s)] = " " THEN RStrip(SubSeq(s, 1, Len(s) - 1)) ELSE s

Strip_Nothing(s) == s

\* s.strip()
Strip(s) == RStrip(LStrip(s))

\* s.replace(old, new), old non-empty: leftmost non-overlapping occurrences
RECURSIVE Replace(_, _, _)
Replace(s, old, new) ==
    IF Len(s) < Len(old) THEN s
    ELSE IF StartsWith(s, old) THEN new \o Replace(Drop(s, Len(old)), old, new)
    ELSE <<Head(s)>> \o Replace(Tail(s), old, new)

\* the first word of s (s does not start with a space)
RECURSIVE FirstWord(_)
FirstWord(s) ==
    IF s = <<>> \/ Head(s) = " " THEN <<>> ELSE <<Head(s)>> \o FirstWord(Tail(s))

\* set(s.split()): the whitespace-separated words of s
RECURSIVE WordSet(_)
WordSet(s) ==
    LET t == LStrip(s)
    IN IF t = <<>> THEN {}
       ELSE {FirstWord(t)} \cup WordSet(Drop(t, Len(FirstWord(t))))

\* ''.join(c for c in s if c.isalnum() or c == ' ')
RECURSIVE KeepAlnumSpace(_)
KeepAlnumSpace(s) ==
    IF s = <<>> THEN <<>>
    ELSE (IF IsAlnum(Head(s)) \/ Head(s) = " " THEN <<Head(s)>> ELSE <<>>)
         \o KeepAlnumSpace(Tail(s))

(* ---------------------------------------------------------------------- *)
(* String constants of search_companies_house                              *)
(* ---------------------------------------------------------------------- *)

S_LIMITED == <<"L","I","M","I","T","E","D">>

S_LTD == <<"L","T","D">>

S_LTD_DOT == <<"L","T","D",".">>

S_PLC == <<"P","L","C">>

S_PLC_DOT == <<"P","L","C",".">>

S_LLP == <<"L","L","P">>

S_LLP_DOT == <<"L","L","P",".">>

S_LIMITED_LIABILITY_PARTNERSHIP ==
    <<"L","I","M","I","T","E","D"," ","L","I","A","B","I","L","I","T","Y"," ",
      "P","A","R","T","N","E","R","S","H","I","P">>

S_GROUP == <<"G","R","O","U","P">>

S_HOLDINGS == <<"H","O","L","D","I","N","G","S">>

S_HOLDING == <<"H","O","L","D","I","N","G">>

S_SP_LIMITED == <<" ","L","I","M","I","T","E","D">>

S_SP_LTD == <<" ","L","T","D">>

S_THE_SP == <<"T","H","E"," ">>

S_SP_AND_SP == <<" ","A","N","D"," ">>

S_SP_AMP_SP == <<" ","&"," ">>

\* the list `suffixes`, in the order the loops walk it
suffixes ==
    <<S_LIMITED, S_LTD, S_LTD_DOT, S_PLC, S_PLC_DOT, S_LLP, S_LLP_DOT,
      S_LIMITED_LIABILITY_PARTNERSHIP, S_GROUP, S_HOLDINGS, S_HOLDING>>

(* ---------------------------------------------------------------------- *)
(* Name normaliser: the search variations                                  *)
(* ---------------------------------------------------------------------- *)

\* one iteration of `for suffix in suffixes` on name_clean
StripOneSuffix(n, suffix) ==
    IF EndsWith(n, <<" ">> \o suffix)
    THEN Strip(Take(n, Len(n) - (Len(suffix) + 1)))
    ELSE IF EndsWith(n, suffix)
    THEN Strip(Take(n, Len(n) - Len(suffix)))
    ELSE n

\* the loop over suffixes[k..], threading name_clean through every iteration
RECURSIVE StripSuffixesFrom(_, _)
StripSuffixesFrom(n, k) ==
    IF k > Len(suffixes) THEN n
    ELSE StripSuffixesFrom(StripOneSuffix(n, suffixes[k]), k + 1)

\* name_clean after the suffix loop
NameClean(name) == StripSuffixesFrom(StrUpper(name), 1)

Dedup_KeepsAll(xs, seen) == xs

\* [x for x in xs if not (x in seen or seen.add(x))]
RECURSIVE Dedup(_, _)
Dedup(xs, seen) ==
    IF xs = <<>> THEN <<>>
    ELSE IF Head(xs) \in seen THEN Dedup(Tail(xs), seen)
    ELSE <<Head(xs)>> \o Dedup(Tail(xs), seen \cup {Head(xs)})

\* search_variations before the duplicates are removed
RawVariations(name) ==
    LET name_clean     == NameClean(name)
        clean_no_punct == KeepAlnumSpace(name_clean)
    IN  <<name>>
        \o (IF name_clean # StrUpper(name)
            THEN <<name_clean, name_clean \o S_SP_LIMITED, name_clean \o S_SP_LTD>>
            ELSE <<>>)
        \o (IF StartsWith(name_clean, S_THE_SP)
            THEN <<Strip(Drop(name_clean, 4))>>
            ELSE <<>>)
        \o (IF clean_no_punct # name_clean THEN <<clean_no_punct>> ELSE <<>>)
        \o (IF Contains(clean_no_punct, S_SP_AND_SP)
            THEN <<Replace(clean_no_punct, S_SP_AND_SP, S_SP_AMP_SP)>>
            ELSE <<>>)
        \o (IF Contains(clean_no_punct, S_SP_AMP_SP)
            THEN <<Replace(clean_no_punct, S_SP_AMP_SP, S_SP_AND_SP)>>
            ELSE <<>>)

\* search_variations as the query loop sees it
search_variations(name) == Dedup(RawVariations(name), {})

\* search_variations[:6]
MaxVariations == 6

Queried_Uncapped(name) == search_variations(name)

Queried(name) == Take(search_variations(name), MaxVariations)

\* what lines 60-104 leave in name_clean and search_variations
Normalised(name) ==
    [name_clean |-> NameClean(name), search_variations |-> search_variations(name)]

\* the same locals when the name is empty and line 62 has returned
NoNorm == [name_clean |-> <<>>, search_variations |-> <<>>]

(* ---------------------------------------------------------------------- *)
(* Match scorer                                                            *)
(* ---------------------------------------------------------------------- *)

\* for suffix in suffixes: s = s.replace(suffix, ''), from suffixes[k] on
RECURSIVE RemoveSuffixesFrom(_, _)
RemoveSuffixesFrom(s, k) ==
    IF k > Len(suffixes) THEN s
    ELSE RemoveSuffixesFrom(Replace(s, suffixes[k], <<>>), k + 1)

\* api_clean / search_clean
CleanForCompare(s) == Strip(RemoveSuffixesFrom(s, 1))

OverlapScore_FromSixty(common_words) == 60 + (Cardinality(common_words) - 1) * 5

\* 60 + len(common_words) * 5
OverlapScore(common_words) == 60 + Cardinality(common_words) * 5

\* the score of one item's title against the original name
Score(name, title) ==
    LET api_name      == StrUpper(title)
        search_upper  == StrUpper(name)
        api_clean     == CleanForCompare(api_name)
        search_clean  == CleanForCompare(search_upper)
        common_words  == WordSet(api_clean) \cap WordSet(search_clean)
    IN  IF api_name = search_upper THEN 100
        ELSE IF Contains(search_upper, api_name) \/ Contains(api_name, search_upper)
        THEN 90
        ELSE IF api_clean = search_clean THEN 85
        ELSE IF \/ StartsWith(api_clean, Take(search_clean, 10))
                \/ StartsWith(search_clean, Take(api_clean, 10))
        THEN 75
        ELSE IF common_words # {} THEN OverlapScore(common_words)
        ELSE 50

(* ---------------------------------------------------------------------- *)
(* Inputs: company names of the uploaded file, items the registry holds    *)
(* ---------------------------------------------------------------------- *)

N_BLANK == <<" "," ">>

N_ACME_GROUP == <<"A","C","M","E"," ","G","R","O","U","P">>

N_THE_A_AND_B == <<"T","h","e"," ","A"," ","a","n","d"," ","B",","," ","L","t","d">>

N_NINE_WORDS == <<"A"," ","B"," ","C"," ","D"," ","E"," ","F"," ","G"," ","H"," ","I">>

N_AB_LTD == <<"A","B"," ","L","T","D">>

N_AB == <<"A","B">>

N_AB_LTD_PADDED == <<" ","A","b"," ","L","t","d"," ">>

T_ACME == <<"A","C","M","E">>

T_ACME_X == <<"A","c","m","e"," ","X">>

T_X_ACME == <<"X"," ","A","C","M","E">>

T_ZED == <<"Z","E","D">>

T_NINE_WORDS == <<"B"," ","A"," ","C"," ","D"," ","E"," ","F"," ","G"," ","H"," ","I">>

T_THE_A_AND_B_LTD == <<"T","H","E"," ","A"," ","A","N","D"," ","B"," ","L","T","D">>

T_ABC == <<"A","B","C">>

T_ABD == <<"A","B","D">>

\* one element of data['items']
Item(title, number) == [title |-> title, company_number |-> number]

\* the company names the uploaded files hold, the titles the registry holds
RawNames == {N_BLANK, N_ACME_GROUP, N_THE_A_AND_B, N_NINE_WORDS, N_AB_LTD, N_AB,
             N_AB_LTD_PADDED}

Titles == {N_ACME_GROUP, T_ACME, T_ACME_X, T_X_ACME, T_ZED, N_THE_A_AND_B,
           T_THE_A_AND_B_LTD, T_NINE_WORDS, N_AB_LTD, T_ABC, T_ABD}

\* longest batch, longest items list of one response
MaxRows == 5

MaxItems == 2

\* the rows of the longer batches: row j of the file
BatchRow(j) == <<N_AB_LTD, N_BLANK, N_AB>>[((j - 1) % 3) + 1]

\* an uploaded file (its name column) with the items the registry can answer with
Scenarios ==
    {[df |-> <<N_ACME_GROUP>>,
      registry |-> {Item(N_ACME_GROUP, "00000001"), Item(T_ACME, "00000002"),
                    Item(T_ACME_X, "00000003"), Item(T_X_ACME, "00000004"),
                    Item(T_ZED, "00000005")}],
     [df |-> <<N_THE_A_AND_B>>,
      registry |-> {Item(N_THE_A_AND_B, "00000006"),
                    Item(T_THE_A_AND_B_LTD, "00000007"), Item(T_ZED, "00000005")}],
     [df |-> <<N_NINE_WORDS>>,
      registry |-> {Item(T_NINE_WORDS, "00000008"), Item(T_ZED, "00000005")}],
     [df |-> <<N_AB_LTD_PADDED>>,
      registry |-> {Item(N_AB_LTD, "00000009"), Item(T_ZED, "00000005")}]}
    \cup {[df |-> [j \in 1..n |-> BatchRow(j)],
           registry |-> {Item(N_AB_LTD, "00000009")}] : n \in 0..MaxRows}

\* the items lists of at most n elements over the set S, in every order (one
\* response lists a company once)
RECURSIVE ItemLists(_, _)
ItemLists(S, n) ==
    IF n = 0 THEN {<<>>}
    ELSE ItemLists(S, n - 1)
         \cup UNION {{<<x>> \o l : l \in {m \in ItemLists(S \ {x}, n - 1) : Len(m) = n - 1}}
                      : x \in S}

(* The string functions are evaluated once for the names and titles above  *)
(* and looked up while the state space is explored.                        *)

\* str(company_name).strip() of every name
StripTable == [raw \in RawNames |-> Strip(raw)]

\* search_variations[:6] of every stripped name
QueriedTable == [name \in {Strip(raw) : raw \in RawNames} |-> Queried(name)]

\* name_clean and search_variations of every stripped name
NormTable == [name \in {Strip(raw) : raw \in RawNames} |-> Normalised(name)]

\* the score of every title against every stripped name
ScoreTable == [name \in {Strip(raw) : raw \in RawNames}, title \in Titles |-> Score(name, title)]

\* the items lists each registry can answer with
ItemListsTable == [r \in {sc.registry : sc \in Scenarios} |-> ItemLists(r, MaxItems)]

\* response.status_code
StatusCodes == {200, 401, 403, 429, 500}

\* best_match = None, best_score = 0, search_term_used = ""
NoBest == [best_score |-> 0, best_match |-> <<>>, search_term_used |-> <<>>]

\* if best_match and best_score >= 65
AcceptThreshold == 65

GoodEnough_Conflated == AcceptThreshold

\* if best_score >= 80: break
GoodEnough == 80

S_ALL_VARIATIONS == <<"A","l","l"," ","v","a","r","i","a","t","i","o","n","s">>

(* ---------------------------------------------------------------------- *)
(* search_companies_house: scoring one response, the returned dict         *)
(* ---------------------------------------------------------------------- *)

Better_OrEqual(score, item, search_term, b) ==
    IF score >= b.best_score
    THEN [best_score |-> score, best_match |-> <<item>>, search_term_used |-> search_term]
    ELSE b

\* if score > best_score: best_score, best_match, search_term_used = ...
Better(score, item, search_term, b) ==
    IF score > b.best_score
    THEN [best_score |-> score, best_match |-> <<item>>, search_term_used |-> search_term]
    ELSE b

\* for item in items: score it and keep the best
RECURSIVE ScoreItems(_, _, _, _)
ScoreItems(name, search_term, items, b) ==
    IF items = <<>> THEN b
    ELSE ScoreItems(name, search_term, Tail(items),
                    Better(ScoreTable[name, Head(items).title], Head(items), search_term, b))

Accepted_Strict(b) == b.best_match # <<>> /\ b.best_score > AcceptThreshold

\* if best_match and best_score >= 65 (the items of the model are non-empty dicts)
Accepted(b) == b.best_match # <<>> /\ b.best_score >= AcceptThreshold

\* the two return statements after the loop
SearchResult(name, b, total) ==
    IF Accepted(b)
    THEN [company_name        |-> b.best_match[1].title,
          company_number      |-> b.best_match[1].company_number,
          match_score         |-> b.best_score,
          search_term_used    |-> b.search_term_used,
          total_matches_found |-> total]
    ELSE [company_name        |-> name,
          company_number      |-> "NOT FOUND",
          company_status      |-> "NOT FOUND",
          match_score         |-> b.best_score,
          search_term_used    |-> IF b.search_term_used = <<>> THEN S_ALL_VARIATIONS
                                  ELSE b.search_term_used,
          total_matches_found |-> total,
          error               |-> "No good match found"]

\* result.get(key, default)
Get(d, key, default) == IF key \in DOMAIN d THEN d[key] ELSE default

\* result_row: the row's own columns and the ch_ columns
ResultRow(index, name, r) ==
    [index             |-> index,
     name              |-> name,
     ch_company_name   |-> Get(r, "company_name", <<>>),
     ch_company_number |-> Get(r, "company_number", ""),
     ch_match_score    |-> Get(r, "match_score", 0),
     ch_error          |-> Get(r, "error", ""),
     ch_search_used    |-> Get(r, "search_term_used", <<>>),
     ch_matches_found  |-> Get(r, "total_matches_found", 0)]

(* ---------------------------------------------------------------------- *)
(* Initial state: the page is loaded, a file is uploaded, nothing runs     *)
(* ---------------------------------------------------------------------- *)

\* how a requests.get ended: an exception, or a response with a status code
NoResponse == [exc |-> "none", status |-> 0]

Raised(e) == [exc |-> e, status |-> 0]

Answered(status) == [exc |-> "", status |-> status]

\* time.sleep(0.2) and time.sleep(0.6), in milliseconds
VariantPause == 200

InterRowPause == 600

\* no request sent yet in this run, nothing slept
NoClock == [called |-> FALSE, slept |-> 0, row_pauses |-> 0]

\* `result` before any search has returned
NoResult == [pending |-> TRUE]

SearchReset_KeepsAllItems(name, vs) ==
    /\ original_name' = name
    /\ variations' = vs
    /\ vi' = IF vs = <<>> THEN 0 ELSE 1
    /\ norm' = IF name = <<>> THEN NoNorm ELSE NormTable[name]
    /\ best' = NoBest
    /\ n_all_items' = n_all_items
    /\ queries' = <<>>
    /\ candidates' = {}
    /\ last_response' = NoResponse

\* the locals of search_companies_house before its loop
SearchReset(name, vs) ==
    /\ original_name' = name
    /\ variations' = vs
    /\ vi' = IF vs = <<>> THEN 0 ELSE 1
    /\ norm' = IF name = <<>> THEN NoNorm ELSE NormTable[name]
    /\ best' = NoBest
    /\ n_all_items' = 0
    /\ queries' = <<>>
    /\ candidates' = {}
    /\ last_response' = NoResponse

Init ==
    /\ \E sc \in Scenarios : df = sc.df /\ registry = sc.registry
    /\ stop_processing = FALSE
    /\ processing = FALSE
    /\ pc = "idle"
    /\ i = 0
    /\ results = <<>>
    /\ results_df = <<>>
    /\ reported = "none"
    /\ processing_error = FALSE
    /\ original_name = <<>>
    /\ variations = <<>>
    /\ vi = 0
    /\ norm = NoNorm
    /\ best = NoBest
    /\ n_all_items = 0
    /\ result = NoResult
    /\ queries = <<>>
    /\ candidates = {}
    /\ last_response = NoResponse
    /\ stop_at = <<>>
    /\ clock = NoClock
    /\ served = <<>>

(* ---------------------------------------------------------------------- *)
(* Actions                                                                 *)
(* ---------------------------------------------------------------------- *)

\* stop_processing(): the on_click of both stop buttons.  Clicked while no
\* batch runs, the script run it triggers ends in the auto-reset.
StopClick ==
    /\ stop_processing' = (pc # "idle" \/ processing)
    /\ stop_at' = IF pc # "idle" /\ ~stop_processing
                  THEN <<[pc |-> pc, i |-> i, q |-> Len(queries)]>>
                  ELSE stop_at
    /\ UNCHANGED <<df, registry, clock, served, processing, pc, i, results, results_df, reported,
                   processing_error, result>>
    /\ UNCHANGED searchVars

\* "Start Checking Companies" clicked; process_companies up to its loop
StartClick ==
    /\ pc = "idle"
    /\ ~processing
    /\ stop_processing' = FALSE
    /\ processing' = TRUE
    /\ results' = <<>>
    /\ i' = 0
    /\ results_df' = <<>>
    /\ reported' = "none"
    /\ processing_error' = FALSE
    /\ result' = NoResult
    /\ stop_at' = <<>>
    /\ SearchReset(<<>>, <<>>)
    /\ clock' = NoClock
    /\ pc' = IF Len(df) = 0 THEN "returned" ELSE "loop"
    /\ UNCHANGED <<df, registry, served>>

StopRequested_Never == FALSE

\* if st.session_state.stop_processing, at the top of the loop body
StopRequested == stop_processing

\* for i, row in df.iterrows(): if stop_processing: break
CheckStop ==
    /\ pc = "loop"
    /\ i < Len(df)
    /\ StopRequested
    /\ pc' = "returned"
    /\ UNCHANGED <<df, registry, clock, served, stop_processing, processing, i, results, results_df,
                   reported, processing_error, result, stop_at>>
    /\ UNCHANGED searchVars

\* the for loop has no row left
LoopEnd ==
    /\ pc = "loop"
    /\ i = Len(df)
    /\ pc' = "returned"
    /\ UNCHANGED <<df, registry, clock, served, stop_processing, processing, i, results, results_df,
                   reported, processing_error, result, stop_at>>
    /\ UNCHANGED searchVars

\* the row's name is read and search_companies_house runs up to its first request
BeginRow ==
    /\ pc = "loop"
    /\ i < Len(df)
    /\ ~StopRequested
    /\ LET name == StripTable[df[i + 1]]
       IN  IF name = <<>>
           THEN /\ SearchReset(name, <<>>)
                /\ result' = [error |-> "Empty company name"]
                /\ pc' = "append"
           ELSE /\ SearchReset(name, QueriedTable[name])
                /\ result' = NoResult
                /\ pc' = "search"
    /\ UNCHANGED <<df, registry, clock, served, stop_processing, processing, i, results, results_df,
                   reported, processing_error, stop_at>>

RequestFails_Partial ==
    /\ pc = "search"
    /\ \E e \in {"RequestException", "Exception"} : last_response' = Raised(e)
    /\ result' = SearchResult(original_name, best, n_all_items)
    /\ queries' = Append(queries, variations[vi])
    /\ clock' = [clock EXCEPT !.called = TRUE, !.slept = 0]
    /\ pc' = "append"
    /\ UNCHANGED <<df, registry, served, stop_processing, processing, i, results, results_df,
                   reported, processing_error, original_name, variations, vi, norm,
                   best, n_all_items, candidates, stop_at>>

\* requests.get (or the scoring of its answer) raises e: the except clauses
\* return the error dict
RequestFailsWith(e) ==
    /\ pc = "search"
    /\ last_response' = Raised(e)
    /\ result' = [error |-> IF e = "RequestException" THEN "Network error"
                            ELSE "Unexpected error"]
    /\ queries' = Append(queries, variations[vi])
    /\ clock' = [clock EXCEPT !.called = TRUE, !.slept = 0]
    /\ pc' = "append"
    /\ UNCHANGED <<df, registry, stop_processing, processing, i, results, results_df,
                   reported, processing_error, original_name, variations, vi, norm,
                   best, n_all_items, candidates, stop_at>>

RequestFails ==
    /\ \E e \in {"RequestException", "Exception"} : RequestFailsWith(e)
    /\ UNCHANGED served

LoopDone_StopAware(b) ==
    b.best_score >= GoodEnough \/ vi = Len(variations) \/ stop_processing

LoopDone_ExhaustsVariations(b) == vi = Len(variations)

\* the loop over search_variations[:6] ends: break, or no variation left
LoopDone(b) == b.best_score >= GoodEnough \/ vi = Len(variations)

AllItemsExtended_Distinct(n, items) == Cardinality(candidates \cup Range(items))

\* all_items.extend(items); len(all_items)
AllItemsExtended(n, items) == n + Len(items)

\* requests.get returns status and, in the body, items: one pass of the loop
\* over search_variations[:6] (only a 200 is read; after the pass, break or
\* time.sleep(0.2))
RequestAnsweredWith(status, items) ==
    /\ pc = "search"
    /\ LET read == IF status = 200 THEN items ELSE <<>>
           b    == ScoreItems(original_name, variations[vi], read, best)
           n    == AllItemsExtended(n_all_items, read)
       IN  /\ last_response' = Answered(status)
           /\ best' = b
           /\ n_all_items' = n
           /\ candidates' = candidates \cup Range(read)
           /\ IF LoopDone(b)
              THEN /\ result' = SearchResult(original_name, b, n)
                   /\ pc' = "append"
                   /\ vi' = vi
                   /\ clock' = [clock EXCEPT !.called = TRUE, !.slept = 0]
              ELSE /\ result' = result
                   /\ pc' = "search"
                   /\ vi' = vi + 1
                   /\ clock' = [clock EXCEPT !.called = TRUE, !.slept = VariantPause]
    /\ queries' = Append(queries, variations[vi])
    /\ UNCHANGED <<df, registry, stop_processing, processing, i, results, results_df,
                   reported, processing_error, original_name, variations, norm, stop_at>>

RequestAnswered ==
    /\ \E status \in StatusCodes :
       \E items \in (IF status = 200 THEN ItemListsTable[registry] ELSE {<<>>}) :
          RequestAnsweredWith(status, items)
    /\ UNCHANGED served

SleepAfterRow_UnlessFailed(r) == IF DOMAIN r = {"error"} THEN 0 ELSE InterRowPause

\* time.sleep(0.6) at the end of the loop body, whatever the row's result r
SleepAfterRow(r) == InterRowPause

\* the clock after the pause that follows a row
Slept(c, pause) ==
    [c EXCEPT !.slept = @ + pause, !.row_pauses = IF pause > 0 THEN @ + 1 ELSE @]

AppendRow_SkipsFailed ==
    /\ pc = "append"
    /\ results' = IF DOMAIN result = {"error"} THEN results
                  ELSE Append(results, ResultRow(i, df[i + 1], result))
    /\ i' = i + 1
    /\ clock' = Slept(clock, SleepAfterRow(result))
    /\ pc' = "loop"
    /\ UNCHANGED <<df, registry, served, stop_processing, processing, results_df, reported,
                   processing_error, result, stop_at>>
    /\ UNCHANGED searchVars

\* results.append(result_row); time.sleep(0.6)
AppendRow ==
    /\ pc = "append"
    /\ results' = Append(results, ResultRow(i, df[i + 1], result))
    /\ i' = i + 1
    /\ clock' = Slept(clock, SleepAfterRow(result))
    /\ pc' = "loop"
    /\ UNCHANGED <<df, registry, served, stop_processing, processing, results_df, reported,
                   processing_error, result, stop_at>>
    /\ UNCHANGED searchVars

Report_ErrorKeepsProcessing ==
    /\ pc = "returned"
    /\ results_df' = <<results>>
    /\ processing' = (results = <<>>)
    /\ reported' = IF stop_processing THEN "stopped" ELSE "complete"
    /\ processing_error' = (results = <<>>)
    /\ pc' = "end"
    /\ UNCHANGED <<df, registry, clock, served, stop_processing, i, results, result, stop_at>>
    /\ UNCHANGED searchVars

\* process_companies returns; the handler stores the frame, clears `processing`,
\* reports, and shows the summary (a frame without rows has no ch_ columns)
Report ==
    /\ pc = "returned"
    /\ results_df' = <<results>>
    /\ processing' = FALSE
    /\ reported' = IF stop_processing THEN "stopped" ELSE "complete"
    /\ processing_error' = (results = <<>>)
    /\ pc' = "end"
    /\ UNCHANGED <<df, registry, clock, served, stop_processing, i, results, result, stop_at>>
    /\ UNCHANGED searchVars

\* the last lines of the script: auto-reset of the stop flag
ScriptEnd ==
    /\ pc = "end"
    /\ stop_processing' = IF ~processing /\ stop_processing THEN FALSE ELSE stop_processing
    /\ pc' = "idle"
    /\ UNCHANGED <<df, registry, clock, served, processing, i, results, results_df, reported,
                   processing_error, result, stop_at>>
    /\ UNCHANGED searchVars

Next ==
    \/ StopClick
    \/ StartClick
    \/ CheckStop
    \/ LoopEnd
    \/ BeginRow
    \/ RequestFails
    \/ RequestAnswered
    \/ AppendRow
    \/ Report
    \/ ScriptEnd

Spec == Init /\ [][Next]_vars

(* ---------------------------------------------------------------------- *)
(* Properties                                                              *)
(* ---------------------------------------------------------------------- *)

\* the dict of the early return and of the except clauses: only 'error'
IsFailed(r) == DOMAIN r = {"error"}

\* the dict of one of the two returns after the loop
IsDecided(r) == "match_score" \in DOMAIN r

\* the dict of the first return after the loop
IsMatched(r) == IsDecided(r) /\ "error" \notin DOMAIN r

\* 401/403 Unauthorized, 429 RateLimited
DeniedCodes == {401, 403, 429}

\* max(S), 0 for the empty set
MaxOf(S) == IF S = {} THEN 0 ELSE CHOOSE x \in S : \A y \in S : y <= x

\* the stop flag was raised while row stop_at[1].i was being resolved
StoppedMidRow == stop_at # <<>> /\ stop_at[1].pc \in {"search", "append"}

\* C1: when process_companies returns, whatever the moment the stop flag was
\* raised, it returns the outcomes accumulated so far: one per processed row,
\* in input order, a prefix of the input; raised between row k and row k+1
\* (at the top of the loop with k rows done), exactly k outcomes are returned.
C1_CancelReturnsPrefix ==
    pc = "returned" =>
        /\ Len(results) = i
        /\ Len(results) <= Len(df)
        /\ \A j \in 1..Len(results) : results[j].index = j - 1 /\ results[j].name = df[j]
        /\ (stop_at # <<>> /\ stop_at[1].pc = "loop") => Len(results) = stop_at[1].i

\* 5 rows, the flag raised after row 2 completed: 2 outcomes returned
C1_Witness ==
    /\ pc = "returned"
    /\ Len(df) = 5
    /\ stop_at # <<>> /\ stop_at[1].pc = "loop" /\ stop_at[1].i = 2
    /\ Len(results) = 2

\* C2 (as claimed): once a request of a search was answered 401, 403 or 429
\* the search is over with a Failed outcome and no further variant is queried.
C2_DeniedFailsAtOnce ==
    (pc \in {"search", "append"} /\ last_response.status \in DeniedCodes)
        => (pc = "append" /\ IsFailed(result))

\* C3 (as claimed): with no stop requested every row is processed and n
\* outcomes are returned, and a row whose resolution failed (empty name,
\* exception, or a request answered 401, 403 or 429) gets a Failed outcome
\* that carries an error.
C3_RowFailuresRecorded ==
    /\ (pc = "returned" /\ stop_at = <<>>) => Len(results) = Len(df)
    /\ (pc = "append"
        /\ (\/ original_name = <<>>
            \/ last_response.exc \in {"RequestException", "Exception"}
            \/ last_response.status \in DeniedCodes))
        => (IsFailed(result) /\ result.error # "")

\* C4: a further variant is queried only while the running best score is
\* below 80, the queries are the variations in order, and a search that
\* decides before the last variation has a best score of at least 80.
C4_EarlyExitAt80 ==
    /\ pc = "search" =>
          /\ best.best_score < 80
          /\ queries = SubSeq(variations, 1, vi - 1)
    /\ (pc = "append" /\ IsDecided(result)) =>
          /\ queries = SubSeq(variations, 1, Len(queries))
          /\ Len(queries) < Len(variations) => best.best_score >= 80

\* the 3rd of 6 variations is the first to bring a score >= 80: 3 requests
C4_Witness ==
    /\ pc = "append"
    /\ IsDecided(result)
    /\ Len(variations) = 6
    /\ Len(queries) = 3
    /\ best.best_score >= 80
    /\ best.search_term_used = variations[3]

\* C5: a search that ends without failure returns Matched exactly when the
\* highest score among all the candidates it was answered with is >= 65; the
\* reported score is that maximum (0 without candidates) and a Matched
\* outcome reports a candidate that attains it.
C5_AcceptAt65 ==
    (pc = "append" /\ IsDecided(result)) =>
        LET m == MaxOf({ScoreTable[original_name, it.title] : it \in candidates})
        IN  /\ IsMatched(result) <=> m >= 65
            /\ result.match_score = m
            /\ IsMatched(result) =>
                  \E it \in candidates :
                      /\ ScoreTable[original_name, it.title] = m
                      /\ result.company_name = it.title
                      /\ result.company_number = it.company_number
            /\ ~IsMatched(result) => result.company_number = "NOT FOUND"

\* a candidate scoring exactly 65 is accepted
C5_Witness ==
    /\ pc = "append"
    /\ IsMatched(result)
    /\ result.match_score = 65
    /\ Len(queries) = Len(variations)

\* C6 (as claimed): the running best score and every recorded match score
\* lie in 0..100.
C6_ScoresWithin0To100 ==
    /\ best.best_score \in 0..100
    /\ \A j \in 1..Len(results) : results[j].ch_match_score \in 0..100

\* C7: a stop flag raised while a row is being resolved does not end that
\* search: the search still decides under the normal rules (all variations
\* queried unless the best score reached 80), its outcome is appended, and
\* no later row is started.
C7_CancelOnlyAtRowBoundary ==
    /\ (StoppedMidRow /\ pc \in {"search", "append"}) =>
          (i = stop_at[1].i /\ Len(results) = stop_at[1].i)
    /\ (StoppedMidRow /\ pc \in {"loop", "returned", "end", "idle"}) =>
          (i = stop_at[1].i + 1 /\ Len(results) = stop_at[1].i + 1)
    /\ (stop_processing /\ pc = "append" /\ IsDecided(result) /\ result.match_score < 80) =>
          queries = variations

\* the flag is raised after the first of three queries of row 1 of 5: the
\* other two are sent, the outcome is appended and row 2 is never started
C7_Witness ==
    /\ pc = "returned"
    /\ Len(df) = 5
    /\ stop_at = <<[pc |-> "search", i |-> 0, q |-> 1]>>
    /\ Len(queries) = 3
    /\ Len(results) = 1
    /\ results[1].ch_company_number = "NOT FOUND"

\* C8 (as claimed): the run is reported as stopped exactly when a check at
\* the top of the loop found the flag set, that is when it returned fewer
\* outcomes than rows; a run that went through all rows is reported complete.
C8_StoppedIffPreRowCheck ==
    pc = "end" =>
        /\ reported \in {"stopped", "complete"}
        /\ reported = "stopped" <=> Len(results) < Len(df)

\* C9: at every point the results are one outcome per processed row, in
\* input order: the j-th result is that of the j-th row.
C9_ResultsAligned ==
    /\ Len(results) <= Len(df)
    /\ pc \in {"loop", "search", "append", "returned"} => Len(results) = i
    /\ \A j \in 1..Len(results) : results[j].index = j - 1 /\ results[j].name = df[j]

\* all 5 rows done, the blank row 2 recorded in place between rows 1 and 3
C9_Witness ==
    /\ pc = "returned"
    /\ Len(df) = 5
    /\ Len(results) = 5
    /\ results[2].ch_error = "Empty company name"
    /\ results[3].ch_error = ""

\* C10: a request that raises ends the search at once with a dict that holds
\* the error only: no later variant is queried and the row records nothing
\* of what earlier variants had brought.
C10_ExceptionFailsWholeSearch ==
    (pc = "append" /\ last_response.exc \in {"RequestException", "Exception"}) =>
        /\ IsFailed(result)
        /\ result.error \in {"Network error", "Unexpected error"}
        /\ Len(queries) = vi
        /\ LET row == ResultRow(i, df[i + 1], result)
           IN  /\ row.ch_company_name = <<>>
               /\ row.ch_company_number = ""
               /\ row.ch_match_score = 0
               /\ row.ch_search_used = <<>>
               /\ row.ch_matches_found = 0

\* the 2nd request raises after the 1st brought a candidate scoring 65..79
C10_Witness ==
    /\ pc = "append"
    /\ last_response.exc = "RequestException"
    /\ Len(queries) = 2
    /\ Len(variations) > 2
    /\ best.best_score \in 65..79
    /\ IsFailed(result)

\* title.upper() == original_name.upper()
SameNameIgnoringCase(name, title) == StrUpper(title) = StrUpper(name)

\* C11: the first variation, and the first query sent, is the stripped name
\* itself; when the answer to that first query holds a candidate whose title
\* equals the name ignoring case, the search ends there, after one request,
\* Matched with score 100 and the first variation as the search term used.
C11_ExactFirstAnswerMatchesAtOnce ==
    /\ (pc \in {"search", "append"} /\ original_name # <<>>) =>
          /\ original_name = Strip(df[i + 1])
          /\ variations[1] = original_name
          /\ queries # <<>> => queries[1] = original_name
    /\ (/\ pc \in {"search", "append"}
        /\ Len(queries) = 1
        /\ last_response.status = 200
        /\ \E it \in candidates : SameNameIgnoringCase(original_name, it.title)) =>
          /\ pc = "append"
          /\ IsMatched(result)
          /\ result.match_score = 100
          /\ result.search_term_used = variations[1]
          /\ SameNameIgnoringCase(original_name, result.company_name)

\* " Ab Ltd " has four variations; the registry answers the first, "Ab Ltd",
\* with "AB LTD": one request, score 100
C11_Witness ==
    /\ pc = "append"
    /\ df[i + 1] = N_AB_LTD_PADDED
    /\ original_name # df[i + 1]
    /\ Len(variations) = 4
    /\ queries = <<original_name>>
    /\ IsMatched(result)
    /\ result.match_score = 100
    /\ result.company_name = N_AB_LTD
    /\ result.company_name # original_name

(* ---------------------------------------------------------------------- *)
(* The normaliser on its own: lines 60-112 applied to a wider set of names *)
(* ---------------------------------------------------------------------- *)

C_X == <<"X">>

C_A_AND_B == <<"A"," ","a","n","d"," ","B">>

C_THE_Y == <<"T","h","e"," ","Y">>

C_P_COMMA_Q == <<"P",","," ","Q">>

\* a company name without its legal form
NormCores == {C_X, C_A_AND_B, C_THE_Y, C_P_COMMA_Q}

\* nothing, a suffix after a blank, or a suffix written on to the word
NormFirstTails ==
    {<<>>} \cup {<<" ">> \o suffixes[k] : k \in DOMAIN suffixes}
           \cup {suffixes[k] : k \in DOMAIN suffixes}

\* nothing, or a second suffix after a blank
NormSecondTails == {<<>>} \cup {<<" ">> \o suffixes[k] : k \in DOMAIN suffixes}

\* the cell values the normaliser is applied to, some with blanks around
NormNames ==
    {c \o t1 \o t2 : c \in NormCores, t1 \in NormFirstTails, t2 \in NormSecondTails}
    \cup {<<" ">> \o c \o <<" ">> \o s \o <<" ", " ">> : c \in NormCores, s \in Range(suffixes)}
    \cup {N_BLANK}

Init_Norm ==
    /\ \E raw \in NormNames : df = <<raw>>
    /\ registry = {}
    /\ stop_processing = FALSE
    /\ processing = TRUE
    /\ pc = "call"
    /\ i = 0
    /\ results = <<>>
    /\ results_df = <<>>
    /\ reported = "none"
    /\ processing_error = FALSE
    /\ original_name = <<>>
    /\ variations = <<>>
    /\ vi = 0
    /\ norm = NoNorm
    /\ best = NoBest
    /\ n_all_items = 0
    /\ result = NoResult
    /\ queries = <<>>
    /\ candidates = {}
    /\ last_response = NoResponse
    /\ stop_at = <<>>
    /\ clock = NoClock
    /\ served = <<>>

\* search_companies_house from its first line to the head of its loop
NormaliseName ==
    /\ pc = "call"
    /\ LET name == Strip(df[i + 1])
           n    == IF name = <<>> THEN NoNorm ELSE Normalised(name)
       IN  /\ original_name' = name
           /\ norm' = n
           /\ variations' = Take(n.search_variations, MaxVariations)
           /\ vi' = IF name = <<>> THEN 0 ELSE 1
           /\ result' = IF name = <<>> THEN [error |-> "Empty company name"] ELSE NoResult
           /\ pc' = IF name = <<>> THEN "append" ELSE "search"
    /\ UNCHANGED <<df, registry, clock, served, stop_processing, processing, i, results, results_df,
                   reported, processing_error, best, n_all_items, queries, candidates,
                   last_response, stop_at>>

Next_Norm == NormaliseName

NormSpec == Init_Norm /\ [][Next_Norm]_vars

\* no two positions of xs hold the same string
NoDuplicates(xs) == \A j, k \in DOMAIN xs : xs[j] = xs[k] => j = k

\* C13: the variation list built for a name holds no string twice (compared
\* case-sensitively), and neither does the list the query loop walks.
C13_VariationsDistinct ==
    pc = "search" =>
        /\ NoDuplicates(norm.search_variations)
        /\ NoDuplicates(variations)

\* a name for which the list held a duplicate before line 104 removed it
C13_Witness ==
    /\ pc = "search"
    /\ Len(RawVariations(original_name)) > Len(norm.search_variations)
    /\ Len(norm.search_variations) >= 3

\* C14 (as claimed): name_clean is the upper-cased name, unchanged or with
\* exactly one trailing suffix of the list removed.
C14_AtMostOneSuffixStripped ==
    pc = "search" =>
        LET upper == StrUpper(original_name)
        IN  \/ norm.name_clean = upper
            \/ \E k \in DOMAIN suffixes :
                  /\ EndsWith(upper, suffixes[k])
                  /\ norm.name_clean = Strip(Take(upper, Len(upper) - Len(suffixes[k])))

\* C15: within one search the requests carry the variations in the order the
\* normaliser produced them, each at most once and one after the other, and
\* never more than 6 of them, however many variations there are and whatever
\* the registry answers.
C15_AtMostSixQueriesInOrder ==
    /\ variations = SubSeq(norm.search_variations, 1, Len(variations))
    /\ Len(queries) <= 6
    /\ queries = SubSeq(norm.search_variations, 1, Len(queries))
    /\ NoDuplicates(queries)
    /\ pc = "search" => Len(queries) = vi - 1
    /\ (pc = "append" /\ IsDecided(result) /\ best.best_score < 80) =>
          Len(queries) = IF Len(norm.search_variations) < 6
                         THEN Len(norm.search_variations) ELSE 6

\* seven variations, none answered well: six requests, the seventh never sent
C15_Witness ==
    /\ pc = "append"
    /\ Len(norm.search_variations) = 7
    /\ Len(queries) = 6
    /\ IsDecided(result)
    /\ ~IsMatched(result)

\* str(company_name) consists of blanks only (or of nothing)
IsBlank(raw) == \A k \in DOMAIN raw : raw[k] = " "

\* C17: a row whose name strips to the empty string gets the Failed outcome
\* 'Empty company name' without any request being sent for it, and the loop
\* goes on to the next row.
C17_EmptyNameFailsWithoutCall ==
    /\ (pc \in {"search", "append"} /\ IsBlank(df[i + 1])) =>
          /\ pc = "append"
          /\ result = [error |-> "Empty company name"]
          /\ queries = <<>>
          /\ last_response = NoResponse
    /\ \A j \in 1..Len(results) :
          IsBlank(df[j]) =>
             /\ results[j].ch_error = "Empty company name"
             /\ results[j].ch_company_number = ""
             /\ results[j].ch_matches_found = 0
    /\ (pc = "loop" /\ i > 0 /\ IsBlank(df[i])) => (Len(results) = i /\ queries = <<>>)

\* row 2 is blank: it is recorded as failed and row 3 has been queried
C17_Witness ==
    /\ pc = "append"
    /\ i = 2
    /\ IsBlank(df[2])
    /\ results[2].ch_error = "Empty company name"
    /\ queries # <<>>

\* C16: a request is never sent straight after another one: since the
\* previous request of the run at least 200 ms have been slept, and at least
\* 600 ms when the previous request belonged to an earlier row; and the
\* 600 ms pause follows every row that is appended, whatever its result and
\* however many requests it took.
C16_PauseBetweenCalls ==
    [][/\ (Len(queries') = Len(queries) + 1 /\ clock.called) =>
             /\ clock.slept >= 200
             /\ queries = <<>> => clock.slept >= 600
       /\ Len(results') = Len(results) + 1 =>
             /\ clock'.slept >= clock.slept + 600
             /\ clock'.row_pauses = clock.row_pauses + 1
       /\ clock'.row_pauses = Len(results')]_vars

\* row 1 ended with a network error, row 2 was blank and sent nothing: row 3
\* is about to send its first request, 1200 ms after the failed one
C16_Witness ==
    /\ pc = "search"
    /\ i = 2
    /\ queries = <<>>
    /\ results[1].ch_error = "Network error"
    /\ results[2].ch_error = "Empty company name"
    /\ clock.called
    /\ clock.slept = 1200
    /\ clock.row_pauses = 2

(* ---------------------------------------------------------------------- *)
(* The same name searched twice against a registry that answers a query    *)
(* string the same way every time                                          *)
(* ---------------------------------------------------------------------- *)

\* a two-row file holding one name twice, and the items the registry holds
ReplayScenarios ==
    {[df |-> <<N_AB_LTD, N_AB_LTD>>,
      registry |-> {Item(T_ABC, "00000012"), Item(T_ABD, "00000013")}],
     [df |-> <<N_AB_LTD_PADDED, N_AB_LTD_PADDED>>,
      registry |-> {Item(N_AB_LTD, "00000009"), Item(T_ZED, "00000005"),
                    Item(T_ACME, "00000002")}],
     [df |-> <<N_NINE_WORDS, N_NINE_WORDS>>,
      registry |-> {Item(T_NINE_WORDS, "00000008"), Item(T_ZED, "00000005")}],
     [df |-> <<N_BLANK, N_BLANK>>, registry |-> {}]}

\* data['items'] of one response: no item, one, or two in either order
ReplayLists(r) == {<<>>} \cup {<<x>> : x \in r} \cup {<<x, y>> : x \in r, y \in r}

\* what requests.get can do with a query: raise, refuse, or answer with items
StubAnswers(r) ==
    {[exc |-> e, status |-> 0, items |-> <<>>] : e \in {"RequestException", "Exception"}}
    \cup {[exc |-> "", status |-> 429, items |-> <<>>]}
    \cup {[exc |-> "", status |-> 200, items |-> l] : l \in ReplayLists(r)}

Init_Replay ==
    /\ \E sc \in ReplayScenarios : df = sc.df /\ registry = sc.registry
    /\ stop_processing = FALSE
    /\ processing = FALSE
    /\ pc = "idle"
    /\ i = 0
    /\ results = <<>>
    /\ results_df = <<>>
    /\ reported = "none"
    /\ processing_error = FALSE
    /\ original_name = <<>>
    /\ variations = <<>>
    /\ vi = 0
    /\ norm = NoNorm
    /\ best = NoBest
    /\ n_all_items = 0
    /\ result = NoResult
    /\ queries = <<>>
    /\ candidates = {}
    /\ last_response = NoResponse
    /\ stop_at = <<>>
    /\ clock = NoClock
    /\ served = <<>>

\* requests.get with the answer a
RequestWith(a) ==
    IF a.exc # "" THEN RequestFailsWith(a.exc) ELSE RequestAnsweredWith(a.status, a.items)

\* requests.get against the deterministic registry: a query it has answered
\* before gets the same answer again, a new query gets any answer
StubbedRequest ==
    /\ pc = "search"
    /\ LET q     == variations[vi]
           known == {k \in DOMAIN served : served[k].q = q}
       IN  IF known = {}
           THEN \E a \in StubAnswers(registry) :
                   /\ RequestWith(a)
                   /\ served' = Append(served, [q |-> q, answer |-> a])
           ELSE /\ RequestWith(served[CHOOSE k \in known : TRUE].answer)
                /\ UNCHANGED served

Next_Replay ==
    \/ StartClick
    \/ BeginRow
    \/ StubbedRequest
    \/ AppendRow
    \/ LoopEnd

ReplaySpec == Init_Replay /\ [][Next_Replay]_vars

\* the query strings the registry has answered, in the order it first saw them
ServedQueries == [k \in DOMAIN served |-> served[k].q]

\* C12: the second search of a name sends the same requests in the same
\* order as the first and, the registry answering each query string as it
\* did before, returns the same outcome: same error or same company, score,
\* search term used and number of items seen.
C12_SameNameSameOutcome ==
    /\ (i = 1 /\ pc \in {"search", "append"}) =>
          queries = SubSeq(ServedQueries, 1, Len(queries))
    /\ (i = 1 /\ pc = "append") =>
          /\ queries = ServedQueries
          /\ ResultRow(0, df[1], result) = results[1]
    /\ Len(results) = 2 => [results[1] EXCEPT !.index = 1] = results[2]

\* both searches sent three requests and matched the same company
C12_Witness ==
    /\ Len(results) = 2
    /\ Len(served) = 3
    /\ Len(queries) = 3
    /\ results[1].ch_company_number = "00000013"
    /\ results[2].ch_company_number = "00000013"
    /\ results[2].ch_matches_found >= 2

\* len(items) of the k-th answer, for as much as the code reads of it
ItemsRead(k) ==
    IF served[k].answer.exc = "" /\ served[k].answer.status = 200
    THEN served[k].answer.items ELSE <<>>

\* the items read over the first n answers, as a count
RECURSIVE ServedCount(_)
ServedCount(n) == IF n = 0 THEN 0 ELSE ServedCount(n - 1) + Len(ItemsRead(n))

\* C18: total_matches_found of a Matched or Unmatched outcome is the sum of
\* the lengths of the item lists of the answered requests of that search,
\* an item returned under several variations counted every time, and the
\* variations that were never queried adding nothing.
C18_TotalIsSumOverQueries ==
    /\ (pc \in {"search", "append"} /\ original_name # <<>>) =>
          /\ Len(queries) <= Len(served)
          /\ queries = SubSeq(ServedQueries, 1, Len(queries))
          /\ n_all_items = ServedCount(Len(queries))
    /\ (pc = "append" /\ IsDecided(result)) =>
          result.total_matches_found = ServedCount(Len(queries))
    /\ (Len(results) >= 1 /\ results[1].ch_error \notin {"Network error", "Unexpected error"}) =>
          results[1].ch_matches_found = ServedCount(Len(served))

\* three requests: two items, a 429, two items again, of two companies in all
C18_Witness ==
    /\ pc = "append"
    /\ i = 0
    /\ IsMatched(result)
    /\ Len(queries) = 3
    /\ served[2].answer.status = 429
    /\ result.total_matches_found = 4
    /\ Cardinality(candidates) = 2

\* the items read over the first n answers, each with the query that brought
\* it, in the order the code meets them
RECURSIVE Encountered(_)
Encountered(n) ==
    IF n = 0 THEN <<>>
    ELSE Encountered(n - 1)
         \o [k \in DOMAIN ItemsRead(n) |-> [item |-> ItemsRead(n)[k], q |-> served[n].q]]

\* the first of the highest-scored entries of seen, as best_score, best_match
\* and search_term_used
FirstHighest(name, seen) ==
    IF seen = <<>> THEN NoBest
    ELSE LET m == MaxOf({ScoreTable[name, seen[k].item.title] : k \in DOMAIN seen})
             p == CHOOSE k \in DOMAIN seen :
                      /\ ScoreTable[name, seen[k].item.title] = m
                      /\ \A j \in 1..(k - 1) : ScoreTable[name, seen[j].item.title] < m
         IN  [best_score |-> m, best_match |-> <<seen[p].item>>,
              search_term_used |-> seen[p].q]

\* C19: within a search the running best is only ever replaced by a strictly
\* higher score, so the best score never decreases; at every point it is the
\* first, in query order then response order, of the highest-scored items
\* met so far, with the variation whose answer first held it, and that is
\* what a Matched outcome reports.
C19_FirstOfTheHighestIsKept ==
    /\ [](/\ (pc \in {"search", "append"} /\ original_name # <<>>) =>
                best = FirstHighest(original_name, Encountered(Len(queries)))
          /\ (pc = "append" /\ IsMatched(result)) =>
                /\ <<[title |-> result.company_name,
                      company_number |-> result.company_number]>> = best.best_match
                /\ result.search_term_used = best.search_term_used
                /\ result.match_score = best.best_score)
    /\ [][(pc = "search" /\ Len(queries') = Len(queries) + 1) =>
             /\ best'.best_score >= best.best_score
             /\ best' # best => best'.best_score > best.best_score]_vars

\* the first answer holds ABD then ABC, both scoring 75; later answers bring
\* them again: ABD and the first variation are what is reported
C19_Witness ==
    /\ pc = "append"
    /\ i = 0
    /\ IsMatched(result)
    /\ Len(queries) = 3
    /\ served[1].answer.items = <<Item(T_ABD, "00000013"), Item(T_ABC, "00000012")>>
    /\ served[2].answer.items = <<Item(T_ABC, "00000012")>>
    /\ served[3].answer.items = <<Item(T_ABC, "00000012"), Item(T_ABD, "00000013")>>
    /\ result.match_score = 75
    /\ result.company_number = "00000013"
    /\ result.search_term_used = queries[1]

\* C20: every candidate that is scored gets at least 50, so the best score
\* of a search is 0 exactly when no candidate was read; and a search that
\* read candidates ends Unmatched only with a best score below 65, which is
\* the 50 of a candidate that no rule matched.
C20_ScoredAtLeast50 ==
    /\ \A it \in candidates : ScoreTable[original_name, it.title] >= 50
    /\ best.best_score = 0 <=> candidates = {}
    /\ best.best_match = <<>> <=> candidates = {}
    /\ (pc = "append" /\ IsDecided(result) /\ candidates # {}) =>
          /\ result.match_score >= 50
          /\ ~IsMatched(result) =>
                /\ result.match_score < 65
                /\ \A it \in candidates : ScoreTable[original_name, it.title] = 50

\* a company was read under every variation, it shares no word with the name
C20_Witness ==
    /\ pc = "append"
    /\ IsDecided(result)
    /\ ~IsMatched(result)
    /\ candidates # {}
    /\ Len(queries) = 4
    /\ n_all_items >= 4
    /\ result.match_score = 50

(* ---------------------------------------------------------------------- *)
(* The run flags around a batch                                            *)
(* ---------------------------------------------------------------------- *)

\* a batch is between its start click and the handler's report
BatchRunning == pc \in {"loop", "search", "append", "returned"}

\* the loop left before the last row: process_companies was cancelled
BatchCancelled ==
    /\ Len(results) < Len(df)
    /\ pc = "returned" \/ (pc \in {"end", "idle"} /\ reported # "none")

====
